---- MODULE Spec2Model ----
(***************************************************************************)
(* A model of the IEEE Xplore crawler, src/main/module/essaycrawler.py:    *)
(* the transport (make_request, process_response), the three extractors    *)
(* and the crawl loop ieee_crawler with its per-record retry loop.         *)
(*                                                                         *)
(* Python strings that the extractors take apart are sequences of          *)
(* one-character strings; a Python dict is the sequence of its             *)
(* <<key, value>> items in insertion order.                                *)
(*                                                                         *)
(* listing_requests, tries, last_try, outcomes, listed and served record   *)
(* what the crawl has done; the code keeps none of them.  The search       *)
(* endpoint numbers the papers it lists 1, 2, ... in the order it lists    *)
(* them, so that an articleNumber names one record of one listing.         *)
(***************************************************************************)
EXTENDS Integers, Sequences, FiniteSets, TLC

VARIABLES
    max_pages,        \* argument of ieee_crawler
    search_keywords,  \* argument of ieee_crawler
    max_retries,      \* argument of ieee_crawler
    pc,               \* position of ieee_crawler: start, listing, fetch, done, raised
    num,              \* loop variable of "for num in range(1, max_pages)"
    kw,               \* index into search_keywords of the current search_keyword
    essay,            \* the dict returned by get_essay_list for (search_keyword, num)
    item,             \* index into essay.items() of the current (title, essay_code)
    retries,          \* the retry counter of the current record
    data_list,        \* the accumulated rows
    listing_requests, \* every listing request so far: page, term, what came back
    tries,            \* passes through the try block made for the current record
    last_try,         \* the last pass through the try block: record, number, how it ended
    outcomes,         \* every record done with so far, in order: fetched or dropped
    listed,           \* the records of the last listing body that was parsed
    served,           \* the number of records the search endpoint has listed
    text,             \* extract_references alone: the text of the single reference
    refpc,            \* extract_references alone: "idle", "in" or "out"
    refout,           \* extract_references alone: the dict returned
    req,              \* make_request alone: func_name, data and the exchange
    reqpc,            \* make_request alone: "idle", "in" or "out"
    reqout            \* make_request alone: what it returned

crawlVars == <<max_pages, search_keywords, max_retries, pc, num, kw, essay, item,
               retries, data_list, listing_requests, tries, last_try, outcomes,
               listed, served>>

refVars == <<text, refpc, refout>>

reqVars == <<req, reqpc, reqout>>

vars == <<crawlVars, refVars, reqVars>>

(***************************************************************************)
(* Bounds of the model.                                                    *)
(***************************************************************************)
MaxPagesArg == 3      \* max_pages ranges over 0..MaxPagesArg
MaxTerms == 2         \* search_keywords holds 1..MaxTerms terms
MaxRetriesArg == 2    \* max_retries ranges over 0..MaxRetriesArg
MaxListed == 2        \* records the search endpoint lists during one run
MaxTextLen == 3       \* length of the generated reference texts

None == [kind |-> "None", val |-> <<>>]

(***************************************************************************)
(* Python's str methods and the regular expressions of the extractors.     *)
(***************************************************************************)
Quote == "\""

Whitespace == {" ", "\t", "\n", "\r", "\f"}

RECURSIVE StartsWith(_, _)
StartsWith(s, p) ==
    IF p = <<>> THEN TRUE
    ELSE IF s = <<>> THEN FALSE
    ELSE Head(s) = Head(p) /\ StartsWith(Tail(s), Tail(p))

RECURSIVE Drop(_, _)
Drop(s, n) == IF n = 0 \/ s = <<>> THEN s ELSE Drop(Tail(s), n - 1)

\* s.replace(old, '') for a non-empty old: occurrences are removed left to right.
RECURSIVE Remove(_, _)
Remove(s, old) ==
    IF s = <<>> THEN <<>>
    ELSE IF StartsWith(s, old) THEN Remove(Drop(s, Len(old)), old)
    ELSE <<Head(s)>> \o Remove(Tail(s), old)

\* s.split(sep), sep not empty: the pieces, empty ones included.
RECURSIVE SplitFrom(_, _, _)
SplitFrom(s, sep, cur) ==
    IF s = <<>> THEN <<cur>>
    ELSE IF StartsWith(s, sep) THEN <<cur>> \o SplitFrom(Drop(s, Len(sep)), sep, <<>>)
    ELSE SplitFrom(Tail(s), sep, Append(cur, Head(s)))

Split(s, sep) == SplitFrom(s, sep, <<>>)

RECURSIVE LStrip(_, _)
LStrip(s, chars) ==
    IF s # <<>> /\ Head(s) \in chars THEN LStrip(Tail(s), chars) ELSE s

RECURSIVE RStrip(_, _)
RStrip(s, chars) ==
    IF s # <<>> /\ s[Len(s)] \in chars THEN RStrip(SubSeq(s, 1, Len(s) - 1), chars) ELSE s

\* s.strip(chars)
Strip(s, chars) == RStrip(LStrip(s, chars), chars)

\* The least index >= from of s holding c, or 0.
RECURSIVE Find(_, _, _)
Find(s, c, from) ==
    IF from > Len(s) THEN 0
    ELSE IF s[from] = c THEN from
    ELSE Find(s, c, from + 1)

\* The search for authors_match (no commas, a comma, no quotes, a quote) tried
\* at start p: <<p, q>> with s[p..q] the match, or <<>>.  The first group ends
\* at the first comma after p, the second at the first quote after that
\* comma, and each holds at least one character.
AuthorsMatchAt(s, p) ==
    IF s[p] = "," THEN <<>>
    ELSE LET c == Find(s, ",", p + 1)
         IN  IF c = 0 THEN <<>>
             ELSE LET q == Find(s, Quote, c + 1)
                  IN  IF q = 0 \/ q = c + 1 THEN <<>> ELSE <<p, q>>

RECURSIVE AuthorsSearch(_, _)
AuthorsSearch(s, p) ==
    IF p > Len(s) THEN <<>>
    ELSE IF AuthorsMatchAt(s, p) # <<>> THEN AuthorsMatchAt(s, p)
    ELSE AuthorsSearch(s, p + 1)

\* The search for title_match (a quote, no quotes, a quote) tried at start p:
\* <<p, q>> with s[p..q] the match, or <<>>.
TitleMatchAt(s, p) ==
    IF s[p] # Quote THEN <<>>
    ELSE LET q == Find(s, Quote, p + 1)
         IN  IF q = 0 \/ q = p + 1 THEN <<>> ELSE <<p, q>>

RECURSIVE TitleSearch(_, _)
TitleSearch(s, p) ==
    IF p > Len(s) THEN <<>>
    ELSE IF TitleMatchAt(s, p) # <<>> THEN TitleMatchAt(s, p)
    ELSE TitleSearch(s, p + 1)

\* re.sub(r'\[[^\]]+\]', '', s): every match, left to right, is removed.
RECURSIVE CleanTitleFrom(_, _)
CleanTitleFrom(s, p) ==
    IF p > Len(s) THEN <<>>
    ELSE LET r == Find(s, "]", p + 1)
         IN  IF s[p] = "[" /\ r # 0 /\ r # p + 1
             THEN CleanTitleFrom(s, r + 1)
             ELSE <<s[p]>> \o CleanTitleFrom(s, p + 1)

CleanTitle(s) == CleanTitleFrom(s, 1)

\* result_dict[key] = value on a dict kept as its items in insertion order:
\* a key already present keeps its place and takes the new value.
DictSet(d, key, value) ==
    IF \E i \in 1..Len(d) : d[i][1] = key
    THEN [i \in 1..Len(d) |-> IF d[i][1] = key THEN <<key, value>> ELSE d[i]]
    ELSE Append(d, <<key, value>>)

(***************************************************************************)
(* extract_references                                                      *)
(***************************************************************************)
EtAl == <<"e", "t", " ", "a", "l", ".">>

And == <<"a", "n", "d">>

\* The inner loop over authors_comma: an empty piece adds nothing, any other
\* loses "et al." and is split at "and".
RECURSIVE SplitAuthors(_)
SplitAuthors(authors_comma) ==
    IF authors_comma = <<>> THEN <<>>
    ELSE LET i == Head(authors_comma)
         IN  (IF i # <<>> THEN Split(Remove(i, EtAl), And) ELSE <<>>)
             \o SplitAuthors(Tail(authors_comma))

\* A variant of ReferenceAuthors that does not split the authors at commas.
ReferenceAuthorsNoCommaSplit(ref_text) ==
    LET m == AuthorsSearch(ref_text, 1)
    IN  IF m = <<>> THEN <<>>
        ELSE SplitAuthors(<<Remove(Strip(SubSeq(ref_text, m[1], m[2]), {" ", ","}),
                                   <<Quote>>)>>)

\* authors_ls as the first half of the loop body leaves it.
ReferenceAuthors(ref_text) ==
    LET m == AuthorsSearch(ref_text, 1)
    IN  IF m = <<>> THEN <<>>
        ELSE LET authors == Remove(Strip(SubSeq(ref_text, m[1], m[2]), {" ", ","}),
                                   <<Quote>>)
             IN  SplitAuthors(Split(authors, <<",">>))

\* [i.strip() for i in authors_ls if i != ' ']
RECURSIVE StripAuthors(_)
StripAuthors(authors_ls) ==
    IF authors_ls = <<>> THEN <<>>
    ELSE (IF Head(authors_ls) # <<" ">>
          THEN <<Strip(Head(authors_ls), Whitespace)>> ELSE <<>>)
         \o StripAuthors(Tail(authors_ls))

\* One pass of the loop over data["references"].
ReferenceEntry(result_dict, ref_text) ==
    LET t == TitleSearch(ref_text, 1)
    IN  IF t = <<>> THEN result_dict
        ELSE DictSet(result_dict,
                     CleanTitle(SubSeq(ref_text, t[1] + 1, t[2] - 1)),
                     StripAuthors(ReferenceAuthors(ref_text)))

RECURSIVE ReferencesFrom(_, _)
ReferencesFrom(result_dict, refs) ==
    IF refs = <<>> THEN result_dict
    ELSE ReferencesFrom(ReferenceEntry(result_dict, Head(refs)), Tail(refs))

\* extract_references on a response whose JSON body holds the reference texts refs.
extract_references(refs) == ReferencesFrom(<<>>, refs)

GreatPaperText ==
    <<"S", "m", "i", "t", "h", ",", " ", "J", ".", " ", "a", "n", "d", " ",
      "D", "o", "e", ",", " ", "A", ".", ",", " ", Quote, "A", " ", "G", "r",
      "e", "a", "t", " ", "P", "a", "p", "e", "r", Quote>>

BracketedText ==
    <<"[", "1", "]", " ", "L", "e", "e", ",", " ", "K", ".", ",", " ", Quote,
      "B", "r", "a", "c", "k", "e", "t", "e", "d", " ", "T", "i", "t", "l",
      "e", Quote>>

EtAlText ==
    <<"A", ".", " ", "R", "o", "y", " ", "e", "t", " ", "a", "l", ".", ",",
      " ", Quote, "O", "n", " ", "[", "o", "n", "l", "i", "n", "e", "]", " ",
      "G", "r", "a", "p", "h", "s", Quote>>

GreatPaperTitle ==
    <<"A", " ", "G", "r", "e", "a", "t", " ", "P", "a", "p", "e", "r">>

Alphabet == {"a", ",", Quote, " ", "[", "]"}

RefTexts ==
    {GreatPaperText, BracketedText, EtAlText}
    \cup UNION {[1..n -> Alphabet] : n \in 0..MaxTextLen}

(***************************************************************************)
(* Transport: make_request and process_response.  An exchange is what the  *)
(* network gives for one request: a transport-level exception (exc), or a *)
(* response with a status code and a body.                                 *)
(***************************************************************************)
\* requests.Response.raise_for_status raises for 4xx and 5xx, nothing else.
raise_for_status(status_code) == 400 <= status_code /\ status_code < 600

\* Whether process_response raises: only 200 skips raise_for_status.
process_response(status_code) ==
    IF status_code # 200 THEN raise_for_status(status_code) ELSE FALSE

\* make_request: the response, or None when the try block raised.
make_request(exch) ==
    IF exch.exc THEN None
    ELSE IF process_response(exch.status) THEN None
    ELSE [kind |-> "Response", val |-> exch.body]

\* The status codes the crawl is run against: 200, a 3xx and a 4xx.
Statuses == {200, 304, 404}

Exchanges(bodies) ==
    {[exc |-> TRUE, status |-> 0]}
    \cup {[exc |-> FALSE, status |-> st, body |-> b] : st \in Statuses, b \in bodies}

(***************************************************************************)
(* extract_essay_list and get_essay_list.  A listing body is JSON with a   *)
(* "records" list of articleTitle/articleNumber objects (ok), or anything  *)
(* json.loads or the two subscripts raise on (not ok).                     *)
(***************************************************************************)
RECURSIVE EssayDictFrom(_, _)
EssayDictFrom(result_dict, records) ==
    IF records = <<>> THEN result_dict
    ELSE EssayDictFrom(DictSet(result_dict, Head(records).articleTitle,
                               Head(records).articleNumber),
                       Tail(records))

\* A dict assignment that keeps the value a key already has.
RECURSIVE EssayDictFirstWins(_, _)
EssayDictFirstWins(result_dict, records) ==
    IF records = <<>> THEN result_dict
    ELSE EssayDictFirstWins(
             IF \E i \in 1..Len(result_dict) : result_dict[i][1] = Head(records).articleTitle
             THEN result_dict
             ELSE Append(result_dict, <<Head(records).articleTitle,
                                        Head(records).articleNumber>>),
             Tail(records))

extract_essay_list_first_wins(response) ==
    IF response = None \/ ~response.val.ok
    THEN [raised |-> TRUE, value |-> None]
    ELSE [raised |-> FALSE,
          value |-> [kind |-> "dict", val |-> EssayDictFirstWins(<<>>, response.val.records)]]

\* extract_essay_list: response.content of None raises AttributeError, a
\* body that is not the expected JSON raises; otherwise the dict.
extract_essay_list(response) ==
    IF response = None \/ ~response.val.ok
    THEN [raised |-> TRUE, value |-> None]
    ELSE [raised |-> FALSE,
          value |-> [kind |-> "dict", val |-> EssayDictFrom(<<>>, response.val.records)]]

get_essay_list(exch) == extract_essay_list(make_request(exch))

Titles == {"T1", "T2"}

\* The listing bodies the search endpoint may send once it has listed n
\* records: papers are numbered in the order they are listed.
ListingBodies(n) ==
    {[ok |-> FALSE, records |-> <<>>]}
    \cup {[ok |-> TRUE,
           records |-> [i \in 1..Len(ts) |->
                           [articleTitle |-> ts[i], articleNumber |-> n + i]]] :
          ts \in UNION {[1..len -> Titles] : len \in 0..(MaxListed - n)}}

(***************************************************************************)
(* crawl_ieee_reference.  A references body is JSON with a "references"    *)
(* list of objects holding a text (ok), or anything response.json() or the *)
(* subscripts raise on (not ok).                                           *)
(***************************************************************************)
ShortRefText == <<"a", ",", "b", Quote, "T", Quote>>

ReferenceBodies ==
    {[ok |-> FALSE, references |-> <<>>],
     [ok |-> TRUE, references |-> <<ShortRefText>>]}

crawl_ieee_reference(exch) ==
    LET response == make_request(exch)
    IN  IF response = None \/ ~response.val.ok
        THEN [raised |-> TRUE, value |-> None]
        ELSE [raised |-> FALSE,
              value |-> [kind |-> "dict",
                         val |-> extract_references(response.val.references)]]

(***************************************************************************)
(* extract_authors and crawl_ieee_paper_authors.  Of an authors page the   *)
(* model keeps what the function reads: matches, the groups that           *)
(* pattern.findall gives for the authorNames pattern, and tags, the texts  *)
(* of the author tags.  A str is kept as the list of itself, so that every *)
(* value is a list of strings with its kind beside it.                     *)
(***************************************************************************)
RECURSIVE StripAll(_)
StripAll(ss) ==
    IF ss = <<>> THEN <<>> ELSE <<Strip(Head(ss), Whitespace)>> \o StripAll(Tail(ss))

extract_authors(body) ==
    IF body.matches # <<>>
    THEN [kind |-> "str",
          val |-> <<Remove(Split(StripAll(body.matches)[1], <<",">>)[1], <<Quote>>)>>]
    ELSE [kind |-> "list", val |-> StripAll(body.tags)]

AuthorBodies ==
    {[matches |-> << <<"A", ",", "B">> >>, tags |-> <<>>],
     [matches |-> <<>>, tags |-> << <<" ", "C">> >>],
     [matches |-> <<>>, tags |-> <<>>]}

\* response.text of None raises AttributeError.
crawl_ieee_paper_authors(exch) ==
    LET response == make_request(exch)
    IN  IF response = None
        THEN [raised |-> TRUE, value |-> None]
        ELSE [raised |-> FALSE, value |-> extract_authors(response.val)]

(***************************************************************************)
(* ieee_crawler.  The two sleeps change no state and are left out:         *)
(* sleep_min <= sleep_max in every call, so random.randint does not raise. *)
(***************************************************************************)
\* range(1, max_pages) with max_pages itself among the pages.
range_pages_inclusive(mp) == 1..mp

\* range(1, max_pages)
range_pages(mp) == 1..(mp - 1)

\* The loop test with the bound included.
retry_allowed_inclusive(r, m) == r <= m

\* while retries < max_retries
retry_allowed(r, m) == r < m

json_dumps(value) == [kind |-> "json", val |-> value.val]

Row(title, essay_code, references, authors) ==
    [title |-> title, essayCode |-> essay_code,
     reference |-> json_dumps(references), author |-> authors]

\* An insertion at the front in place of the append.
insert_row(rows, row) == <<row>> \o rows

\* data_list.append(row)
append_row(rows, row) == Append(rows, row)

\* A try block in which a failed authors request yields None and not an
\* exception, and the row is appended with whatever was obtained.
try_block_partial(rows, title, essay_code, refExch, authExch) ==
    LET references == crawl_ieee_reference(refExch)
        authors == crawl_ieee_paper_authors(authExch)
    IN  IF references.raised
        THEN [raised |-> TRUE, data_list |-> rows,
              references |-> "raised", authors |-> "unrequested"]
        ELSE [raised |-> FALSE,
              data_list |-> append_row(rows, Row(title, essay_code,
                                                 references.value, authors.value)),
              references |-> references.value.kind,
              authors |-> IF authors.raised THEN "raised" ELSE authors.value.kind]

\* The try block: the references, then the authors, then the row if neither
\* is None.  An exception in the first call skips the second.  With the
\* rows, the result says how each call ended: raised, or the kind of value.
try_block(rows, title, essay_code, refExch, authExch) ==
    LET references == crawl_ieee_reference(refExch)
        authors == crawl_ieee_paper_authors(authExch)
    IN  IF references.raised
        THEN [raised |-> TRUE, data_list |-> rows,
              references |-> "raised", authors |-> "unrequested"]
        ELSE IF authors.raised
        THEN [raised |-> TRUE, data_list |-> rows,
              references |-> references.value.kind, authors |-> "raised"]
        ELSE [raised |-> FALSE,
              data_list |-> IF authors.value # None /\ references.value # None
                            THEN append_row(rows, Row(title, essay_code,
                                                      references.value, authors.value))
                            ELSE rows,
              references |-> references.value.kind, authors |-> authors.value.kind]

\* A handler that lets the exception go on to the caller of ieee_crawler.
except_reraises(r) == [pc |-> "raised", retries |-> r + 1]

\* except Exception: the counter goes up and the while loop goes on.
except_handler(r) == [pc |-> "fetch", retries |-> r + 1]

\* Where the two for loops stand when page n is entered.
EnterPage(mp, kws, n, k) ==
    IF n \in range_pages(mp) /\ kws # <<>>
    THEN [pc |-> "listing", num |-> n, kw |-> 1]
    ELSE [pc |-> "done", num |-> n - 1, kw |-> k]

\* Where they stand once search_keywords[k] is done with on page n.
NextKeyword(mp, kws, n, k) ==
    IF k < Len(kws)
    THEN [pc |-> "listing", num |-> n, kw |-> k + 1]
    ELSE EnterPage(mp, kws, n + 1, k)

\* Where the loops stand once the record at index i of the dict d is done with.
NextRecord(mp, kws, n, k, d, i) ==
    IF i < Len(d)
    THEN [pc |-> "fetch", num |-> n, kw |-> k, item |-> i + 1]
    ELSE LET to == NextKeyword(mp, kws, n, k)
         IN  [pc |-> to.pc, num |-> to.num, kw |-> to.kw, item |-> i]

Start ==
    /\ pc = "start"
    /\ \E to \in {EnterPage(max_pages, search_keywords, 1, 0)} :
          /\ pc' = to.pc
          /\ num' = to.num
          /\ kw' = to.kw
    /\ data_list' = <<>>
    /\ UNCHANGED <<max_pages, search_keywords, max_retries, essay, item, retries,
                   listing_requests, tries, last_try, outcomes, listed, served>>
    /\ UNCHANGED <<refVars, reqVars>>

\* essay = get_essay_list(search_keyword, num, headers), the test for None
\* and the entry into the loop over essay.items().
Listing ==
    /\ pc = "listing"
    /\ \E exch \in Exchanges(ListingBodies(served)) :
       \E got \in {get_essay_list(exch)} :
       \E to \in {NextKeyword(max_pages, search_keywords, num, kw)} :
          /\ listing_requests' =
                 Append(listing_requests,
                        [num |-> num, search_keyword |-> search_keywords[kw],
                         returned |-> make_request(exch).kind])
          /\ IF got.raised
             THEN /\ pc' = "raised"
                  /\ UNCHANGED <<num, kw, essay, item, retries, tries, listed, served>>
             ELSE IF got.value = None
             THEN /\ pc' = to.pc
                  /\ num' = to.num
                  /\ kw' = to.kw
                  /\ essay' = None
                  /\ UNCHANGED <<item, retries, tries, listed, served>>
             ELSE IF got.value.val = <<>>
             THEN /\ pc' = to.pc
                  /\ num' = to.num
                  /\ kw' = to.kw
                  /\ essay' = got.value.val
                  /\ listed' = exch.body.records
                  /\ served' = served + Len(exch.body.records)
                  /\ UNCHANGED <<item, retries, tries>>
             ELSE /\ pc' = "fetch"
                  /\ essay' = got.value.val
                  /\ item' = 1
                  /\ retries' = 0
                  /\ tries' = 0
                  /\ listed' = exch.body.records
                  /\ served' = served + Len(exch.body.records)
                  /\ UNCHANGED <<num, kw>>
    /\ UNCHANGED <<max_pages, search_keywords, max_retries, data_list, last_try, outcomes>>
    /\ UNCHANGED <<refVars, reqVars>>

\* The exchanges of the authors request that follows the references request:
\* none is made when crawl_ieee_reference raised, and Unsent stands for that.
Unsent == [exc |-> TRUE, status |-> 0]

AuthorExchangesAfter(refExch) ==
    IF crawl_ieee_reference(refExch).raised THEN {Unsent} ELSE Exchanges(AuthorBodies)

\* One pass of the while loop: the try block, then break or the handler.
Attempt ==
    /\ pc = "fetch"
    /\ retry_allowed(retries, max_retries)
    /\ \E refExch \in Exchanges(ReferenceBodies) :
       \E authExch \in AuthorExchangesAfter(refExch) :
       \E try \in {try_block(data_list, essay[item][1], essay[item][2], refExch, authExch)} :
       \E to \in {NextRecord(max_pages, search_keywords, num, kw, essay, item)} :
          /\ data_list' = try.data_list
          /\ last_try' = [essay_code |-> essay[item][2], n |-> tries + 1,
                          raised |-> try.raised,
                          references |-> try.references, authors |-> try.authors]
          /\ IF try.raised
             THEN /\ pc' = except_handler(retries).pc
                  /\ retries' = except_handler(retries).retries
                  /\ tries' = tries + 1
                  /\ UNCHANGED <<num, kw, item, outcomes>>
             ELSE /\ pc' = to.pc
                  /\ num' = to.num
                  /\ kw' = to.kw
                  /\ item' = to.item
                  /\ retries' = 0
                  /\ tries' = 0
                  /\ outcomes' = Append(outcomes, [essay_code |-> essay[item][2],
                                                   result |-> "fetched"])
    /\ UNCHANGED <<max_pages, search_keywords, max_retries, essay,
                   listing_requests, listed, served>>
    /\ UNCHANGED <<refVars, reqVars>>

\* The while loop ends with retries = max_retries: on to the next record.
GiveUp ==
    /\ pc = "fetch"
    /\ ~retry_allowed(retries, max_retries)
    /\ \E to \in {NextRecord(max_pages, search_keywords, num, kw, essay, item)} :
          /\ pc' = to.pc
          /\ num' = to.num
          /\ kw' = to.kw
          /\ item' = to.item
    /\ retries' = 0
    /\ tries' = 0
    /\ outcomes' = Append(outcomes, [essay_code |-> essay[item][2], result |-> "dropped"])
    /\ UNCHANGED <<max_pages, search_keywords, max_retries, essay, data_list,
                   listing_requests, last_try, listed, served>>
    /\ UNCHANGED <<refVars, reqVars>>

NoTry ==
    [essay_code |-> 0, n |-> 0, raised |-> FALSE,
     references |-> "unrequested", authors |-> "unrequested"]

CrawlIdle ==
    /\ pc = "start"
    /\ num = 0
    /\ kw = 0
    /\ essay = <<>>
    /\ item = 0
    /\ retries = 0
    /\ data_list = <<>>
    /\ listing_requests = <<>>
    /\ tries = 0
    /\ last_try = NoTry
    /\ outcomes = <<>>
    /\ listed = <<>>
    /\ served = 0

RefIdle ==
    /\ text = <<>>
    /\ refpc = "idle"
    /\ refout = <<>>

ReqIdle ==
    /\ req = <<>>
    /\ reqpc = "idle"
    /\ reqout = None

\* search_keywords holds the terms 1..n: the command line takes one or more.
Init ==
    /\ max_pages \in 0..MaxPagesArg
    /\ search_keywords \in {[i \in 1..n |-> i] : n \in 1..MaxTerms}
    /\ max_retries \in 0..MaxRetriesArg
    /\ CrawlIdle
    /\ RefIdle
    /\ ReqIdle

Next ==
    \/ Start
    \/ Listing
    \/ Attempt
    \/ GiveUp

Spec == Init /\ [][Next]_vars

(***************************************************************************)
(* extract_references alone, on a response with one reference.             *)
(***************************************************************************)
RefInit ==
    /\ text \in RefTexts
    /\ refpc = "in"
    /\ refout = <<>>
    /\ max_pages = 0
    /\ search_keywords = <<1>>
    /\ max_retries = 0
    /\ CrawlIdle
    /\ ReqIdle

ExtractReferences ==
    /\ refpc = "in"
    /\ refout' = extract_references(<<text>>)
    /\ refpc' = "out"
    /\ UNCHANGED text
    /\ UNCHANGED <<crawlVars, reqVars>>

RefNext == ExtractReferences

RefSpec == RefInit /\ [][RefNext]_vars

(***************************************************************************)
(* make_request alone, for every status code from 100 to 599.              *)
(***************************************************************************)
FuncNames == {"get_essay_list", "crawl_ieee_reference", "crawl_ieee_paper_authors"}

ReqInit ==
    /\ req \in {[func_name |-> f, exch |-> e] :
                  f \in FuncNames,
                  e \in {[exc |-> TRUE, status |-> 0]}
                        \cup {[exc |-> FALSE, status |-> st, body |-> "body"] :
                                st \in 100..599}}
    /\ reqpc = "in"
    /\ reqout = None
    /\ max_pages = 0
    /\ search_keywords = <<1>>
    /\ max_retries = 0
    /\ CrawlIdle
    /\ RefIdle

MakeRequest ==
    /\ reqpc = "in"
    /\ reqout' = make_request(req.exch)
    /\ reqpc' = "out"
    /\ UNCHANGED req
    /\ UNCHANGED <<crawlVars, refVars>>

ReqNext == MakeRequest

ReqSpec == ReqInit /\ [][ReqNext]_vars

(***************************************************************************)
(* Properties.                                                             *)
(***************************************************************************)
\* An Attempt step: the last pass through the try block is a new one.
IsAttemptStep ==
    <<last_try'.essay_code, last_try'.n>> # <<last_try.essay_code, last_try.n>>

RowCodes == [i \in 1..Len(data_list) |-> data_list[i].essayCode]

IsFetched(o) == o.result = "fetched"

IsDropped(o) == o.result = "dropped"

\* C1: a listing request that fails at the transport (make_request gives None
\* to get_essay_list) raises no error out of the crawl, which goes on with the
\* next search term.
C1_ListingFailureSkipped ==
    \A i \in 1..Len(listing_requests) :
        listing_requests[i].returned = "None" => pc # "raised"

\* C2: a row enters data_list only in a pass through the try block, made
\* within the retry budget, that obtained both a references dict and an authors
\* value, neither None, and it is the row of that record; a record that is
\* dropped has no row.
C2_StepAddsRowOnlyWhenBothObtained ==
    data_list' # data_list =>
        /\ IsAttemptStep
        /\ ~last_try'.raised
        /\ last_try'.references = "dict"
        /\ last_try'.authors \in {"str", "list"}
        /\ last_try'.n \in 1..max_retries
        /\ Len(data_list') = Len(data_list) + 1
        /\ data_list'[Len(data_list')].essayCode = last_try'.essay_code
        /\ data_list'[Len(data_list')].author # None
        /\ data_list'[Len(data_list')].reference.kind = "json"

C2_DroppedHasNoRow ==
    \A i \in 1..Len(outcomes) :
        IsDropped(outcomes[i]) =>
            \A j \in 1..Len(data_list) : data_list[j].essayCode # outcomes[i].essay_code

\* C2: no partial result is persisted: rows come only from passes that
\* obtained both values, and dropped records have none.
C2_NoPartialRow ==
    [][C2_StepAddsRowOnlyWhenBothObtained]_vars /\ []C2_DroppedHasNoRow

\* A record was fetched, and a later one dropped after a pass that got the
\* references but not the authors.
C2_Witness ==
    /\ Len(data_list) >= 1
    /\ Len(outcomes) >= 2
    /\ IsDropped(outcomes[Len(outcomes)])
    /\ last_try.essay_code = outcomes[Len(outcomes)].essay_code
    /\ last_try.references = "dict"
    /\ last_try.authors = "raised"

\* C3: the retry counter of a record starts at zero, no record gets more than
\* max_retries passes through the try block, and a pass that succeeds is the
\* last one of its record.
C3_AttemptsCapped ==
    /\ last_try.n <= max_retries
    /\ pc = "fetch" =>
          IF last_try.essay_code = essay[item][2]
          THEN last_try.raised /\ retries = last_try.n
          ELSE retries = 0

\* A record was dropped after max_retries = 2 failed passes.
C3_Witness ==
    /\ max_retries = 2
    /\ outcomes # <<>>
    /\ IsDropped(outcomes[Len(outcomes)])
    /\ last_try.essay_code = outcomes[Len(outcomes)].essay_code
    /\ last_try.n = 2
    /\ last_try.raised

\* C4: listing requests are made for pages 1..max_pages-1 only, page by page
\* from 1 upwards with every search term requested on a page before the next
\* page, and a run that ends with no listing failure has requested exactly the
\* pages 1..max_pages-1.
C4_PagesRequested ==
    /\ \A i \in 1..Len(listing_requests) :
          /\ listing_requests[i].num >= 1
          /\ listing_requests[i].num < max_pages
          /\ listing_requests[i].num = ((i - 1) \div Len(search_keywords)) + 1
          /\ listing_requests[i].search_keyword
                = search_keywords[((i - 1) % Len(search_keywords)) + 1]
    /\ pc = "done" =>
          {listing_requests[i].num : i \in 1..Len(listing_requests)}
             = {p \in 1..MaxPagesArg : p < max_pages}

\* A run with max_pages = 3 and two search terms has ended.
C4_Witness ==
    /\ pc = "done"
    /\ max_pages = 3
    /\ Len(search_keywords) = 2
    /\ {listing_requests[i].num : i \in 1..Len(listing_requests)} = {1, 2}

\* C5: in the retry loop no step raises out of the crawl; a pass that fails
\* leaves the rows as they are and stays at the record; when the attempts of
\* a record are used up the record is dropped with the rows unchanged and the
\* crawl goes on to the next record, or search term or page, with the counter
\* at zero.
C5_StepInRetryLoop ==
    pc = "fetch" =>
        /\ pc' # "raised"
        /\ (IsAttemptStep /\ last_try'.raised) =>
              /\ data_list' = data_list
              /\ pc' = "fetch"
              /\ <<num', kw', item'>> = <<num, kw, item>>
        /\ retries >= max_retries =>
              /\ ~IsAttemptStep
              /\ data_list' = data_list
              /\ outcomes' = Append(outcomes, [essay_code |-> essay[item][2],
                                               result |-> "dropped"])
              /\ retries' = 0
              /\ IF item < Len(essay)
                 THEN pc' = "fetch" /\ item' = item + 1 /\ <<num', kw'>> = <<num, kw>>
                 ELSE pc' \in {"listing", "done"}

\* C5: every step taken in the retry loop is as C5_StepInRetryLoop says.
C5_FailedRecordDropped == [][C5_StepInRetryLoop]_vars

\* After a record was fetched the next one was dropped, and the one after
\* that is being fetched.
C5_Witness ==
    /\ Len(outcomes) >= 2
    /\ IsFetched(outcomes[Len(outcomes) - 1])
    /\ IsDropped(outcomes[Len(outcomes)])
    /\ max_retries >= 1
    /\ Len(data_list) = 1

\* C6: make_request gives None exactly when the request did not succeed: for
\* every transport exception and every status code that is not 2xx, and a
\* response only for a 2xx status code.
C6_NoneIffNot2xx ==
    reqpc = "out" =>
        (reqout = None
            <=> (req.exch.exc \/ ~(200 <= req.exch.status /\ req.exch.status < 300)))

\* C7: every step leaves data_list as it is or appends one row at its end;
\* at the end of a run the rows are those of the records fetched, one each,
\* in the order the records were processed; with one search term, one page
\* and two records of which the first is fetched and the second dropped, the
\* result is the one row of the first.
C7_StepAppends ==
    \/ data_list' = data_list
    \/ /\ Len(data_list') = Len(data_list) + 1
       /\ SubSeq(data_list', 1, Len(data_list)) = data_list

C7_RowsAtEnd ==
    pc = "done" =>
        /\ LET fetched == SelectSeq(outcomes, IsFetched)
           IN  RowCodes = [i \in 1..Len(fetched) |-> fetched[i].essay_code]
        /\ (/\ Len(search_keywords) = 1
            /\ max_pages = 2
            /\ Len(outcomes) = 2
            /\ IsFetched(outcomes[1])
            /\ IsDropped(outcomes[2]))
           => RowCodes = <<outcomes[1].essay_code>>

\* C7: data_list is append-only and at the end of a run holds the rows of
\* the fetched records in processing order.
C7_AppendOnly == [][C7_StepAppends]_vars /\ []C7_RowsAtEnd

\* The run with one search term and one page whose two records A and B were
\* fetched and dropped has ended.
C7_Witness ==
    /\ pc = "done"
    /\ Len(search_keywords) = 1
    /\ max_pages = 2
    /\ Len(outcomes) = 2
    /\ IsFetched(outcomes[1])
    /\ IsDropped(outcomes[2])
    /\ last_try.essay_code = outcomes[2].essay_code
    /\ Len(data_list) = 1

\* C8: a page with neither an authorNames match nor an author tag makes the
\* attempt fail, so that no row with an empty author value enters data_list.
C8_NoEmptyAuthorRow ==
    \A i \in 1..Len(data_list) : data_list[i].author # [kind |-> "list", val |-> <<>>]

\* C9 as claimed: the author list of "A Great Paper" is
\* ["Smith, J. ", " Doe, A."].
C9_GreatPaperAsClaimed ==
    (refpc = "out" /\ text = GreatPaperText) =>
        refout = << <<GreatPaperTitle,
                      << <<"S", "m", "i", "t", "h", ",", " ", "J", ".", " ">>,
                         <<" ", "D", "o", "e", ",", " ", "A", ".">> >> >> >>

\* C9, amended: for the reference text Smith, J. and Doe, A., "A Great Paper"
\* extract_references returns the dict with the one key A Great Paper whose
\* author list is ["Smith", "J.", "Doe", "A."]: split at every comma and at
\* "and", each piece stripped.
C9_GreatPaperAuthors ==
    (refpc = "out" /\ text = GreatPaperText) =>
        refout = << <<GreatPaperTitle,
                      << <<"S", "m", "i", "t", "h">>, <<"J", ".">>,
                         <<"D", "o", "e">>, <<"A", ".">> >> >> >>

C9_Witness == refpc = "out" /\ text = GreatPaperText

\* C10: the dict of a listing maps each title to the articleNumber of the last
\* record with that title: as many entries as records when the titles differ,
\* one entry with the later id when two records share a title, and then no
\* pass through the try block and no row for the earlier id.
C10_ListingDict ==
    /\ Len(essay) = Cardinality({listed[i].articleTitle : i \in 1..Len(listed)})
    /\ (\A i, j \in 1..Len(listed) :
           i # j => listed[i].articleTitle # listed[j].articleTitle)
          => Len(essay) = Len(listed)
    /\ \A i \in 1..Len(listed) :
          /\ Cardinality({e \in 1..Len(essay) : essay[e][1] = listed[i].articleTitle}) = 1
          /\ \A e \in 1..Len(essay) :
                essay[e][1] = listed[i].articleTitle =>
                    /\ essay[e][2] >= listed[i].articleNumber
                    /\ \E j \in i..Len(listed) :
                          /\ listed[j].articleTitle = listed[i].articleTitle
                          /\ listed[j].articleNumber = essay[e][2]
                          /\ \A k \in (j + 1)..Len(listed) :
                                listed[k].articleTitle # listed[i].articleTitle
    /\ \A i, j \in 1..Len(listed) :
          (i < j /\ listed[i].articleTitle = listed[j].articleTitle) =>
              /\ last_try.essay_code # listed[i].articleNumber
              /\ \A r \in 1..Len(data_list) :
                    data_list[r].essayCode # listed[i].articleNumber

\* A listing of two records with one title, and a row for the second.
C10_Witness ==
    /\ Len(listed) = 2
    /\ listed[1].articleTitle = listed[2].articleTitle
    /\ Len(essay) = 1
    /\ \E r \in 1..Len(data_list) : data_list[r].essayCode = listed[2].articleNumber

====
